---- MODULE Spec2Model ----
(***************************************************************************)
(* The whiteboard editor of src/src/components/WhiteboardEditor.tsx as a   *)
(* state machine.  The variables are the component's React state; every    *)
(* action is one event handler, run to completion and followed by the      *)
(* re-render, so a handler reads the state of the render it was created    *)
(* in (its closure) and every setState of the handler is applied at once.  *)
(* Coordinates are exact rationals <<numerator, denominator>>.             *)
(***************************************************************************)
EXTENDS Integers, Sequences, FiniteSets, TLC

VARIABLES
    currentTool,      \* useState<Tool>('cursor')
    elements,         \* useState(whiteboard.content.elements)
    drawingPaths,     \* useState<DrawingPath[]>([])
    zoom,             \* useState(whiteboard.content.zoom)
    pan,              \* useState(whiteboard.content.pan)
    selectedElement,  \* useState<string | null>(null)
    isDrawing,
    isPanning,
    currentPath,      \* useState<DrawingPath | null>(null)
    lastPanPoint,
    dragStart,
    isDragging,
    history,          \* useState<{elements, paths}[]>([])
    historyIndex,     \* useState(-1)
    strokeColor,
    strokeWidth,
    mountElements,    \* whiteboard.content.elements as seen by the first render
    nextId,           \* the ids crypto.randomUUID() has not handed out yet
    law,              \* observer: the run of checkpointed mutations, undos and redos since mount
    cleared,          \* observer: the document the last confirmed clear ran on
    gesture,          \* observer: the history and strokes the pen gesture in progress began with
    autoSaveStatus,   \* useState<'saved' | 'saving' | 'unsaved'>('saved')
    timerArmed,       \* the setTimeout of the auto-save effect is pending
    inflight,         \* the contents of the onSave calls that have not settled
    failed,           \* observer: the onSave call that settled last was rejected
    mounted,          \* the effects of the first render have run
    stored            \* observer: the content that updateWhiteboard wrote last

(***************************************************************************)
(* Bounds of the model.                                                    *)
(***************************************************************************)
MaxIds == 1        \* ids crypto.randomUUID() hands out in one session
MaxHistory == 2    \* history entries kept
MaxPoints == 2     \* points of one freehand path
MaxInFlight == 2   \* onSave calls that have not settled
MaxZoomTerm == 50000 \* numerator and denominator of a zoom followed

(***************************************************************************)
(* Exact arithmetic on rationals <<n, d>>, d > 0, in lowest terms.         *)
(***************************************************************************)
Abs(n) == IF n < 0 THEN -n ELSE n

RECURSIVE Gcd(_, _)
Gcd(a, b) == IF b = 0 THEN a ELSE Gcd(b, a % b)

Norm(n, d) ==
    LET s == IF d < 0 THEN -1 ELSE 1
        g == Gcd(Abs(n), Abs(d))
    IN  <<(s * n) \div g, (s * d) \div g>>

R(n) == <<n, 1>>
RAdd(a, b) == Norm(a[1] * b[2] + b[1] * a[2], a[2] * b[2])
RSub(a, b) == Norm(a[1] * b[2] - b[1] * a[2], a[2] * b[2])
\* the common factors are taken out before the products
RMul(a, b) ==
    LET g1 == Gcd(Abs(a[1]), Abs(b[2]))
        g2 == Gcd(Abs(b[1]), Abs(a[2]))
    IN  Norm((a[1] \div g1) * (b[1] \div g2), (a[2] \div g2) * (b[2] \div g1))
RDiv(a, b) == RMul(a, <<b[2], b[1]>>)
RLeq(a, b) == a[1] * b[2] <= b[1] * a[2]
RMin(a, b) == IF RLeq(a, b) THEN a ELSE b
RMax(a, b) == IF RLeq(a, b) THEN b ELSE a

Pt(x, y) == [x |-> R(x), y |-> R(y)]

(***************************************************************************)
(* Types and program constants.                                            *)
(***************************************************************************)
Tool == {"cursor", "hand", "text", "rectangle", "circle", "triangle",
         "pen", "arrow", "sticky", "image", "eraser"}

CreationTools == {"text", "rectangle", "circle", "triangle", "sticky", "arrow"}

Null == -1                      \* selectedElement === null

NullPath == [id |-> Null, points |-> <<>>, color |-> "", strokeWidth |-> 0,
             tool |-> ""]      \* currentPath === null

fillColor == "#ffffff"
fontSize == 16

\* canvas.getBoundingClientRect(): the canvas fills its container
rect == [left |-> R(0), top |-> R(0)]

(***************************************************************************)
(* Inputs.                                                                 *)
(***************************************************************************)
\* the document points pointer events are aimed at.  The painted shapes take
\* the pointer events over them (pointer-events-auto), the canvas gets the
\* others: an arrow is painted as the line y = position.y + 50 of its box,
\* so the corners of the arrows' boxes are points of the canvas.
DocPoints == {Pt(0, 0), Pt(40, 40)}

\* the pan offsets a hand gesture is let reach
PanOffsets == {Pt(0, 0), Pt(40, 0)}

\* the toolbar buttons pressed in an editing session
ToolInputs == {"cursor", "pen", "arrow"}

\* whiteboard.content.elements of the whiteboard opened: none, or one arrow
\* that addElement built in an earlier session and a drag left at (40, 40)
LoadedElement ==
    [id |-> 0, type |-> "arrow", position |-> Pt(40, 40),
     size |-> [width |-> 100, height |-> 100], content |-> "",
     style |-> [color |-> "#000000", backgroundColor |-> "#ffffff",
                fontSize |-> 16, strokeWidth |-> 2, opacity |-> 1],
     rotation |-> 0, zIndex |-> 0]

InitialElements == {<<>>, <<LoadedElement>>}

\* the render transform translate(pan) scale(zoom) of the canvas and the
\* overlays: where a document point is on the screen
toScreenCoords(p) ==
    [clientX |-> RAdd(RAdd(RMul(p.x, zoom), pan.x), rect.left),
     clientY |-> RAdd(RAdd(RMul(p.y, zoom), pan.y), rect.top)]

\* the mouse events: the pointer is over one of DocPoints
Events == {toScreenCoords(p) : p \in DocPoints}

(***************************************************************************)
(* Helpers of the component.                                               *)
(***************************************************************************)
\* getCanvasPoint without the pan
getCanvasPoint_NoPan(e) ==
    [x |-> RDiv(RSub(e.clientX, rect.left), zoom),
     y |-> RDiv(RSub(e.clientY, rect.top), zoom)]

getCanvasPoint(e) ==
    [x |-> RDiv(RSub(RSub(e.clientX, rect.left), pan.x), zoom),
     y |-> RDiv(RSub(RSub(e.clientY, rect.top), pan.y), zoom)]

\* Contains with the edges of the box left out
Contains_OpenBox(el, point) ==
    /\ RLeq(el.position.x, point.x) /\ el.position.x # point.x
    /\ RLeq(point.x, RAdd(el.position.x, R(el.size.width)))
    /\ RLeq(el.position.y, point.y) /\ el.position.y # point.y
    /\ RLeq(point.y, RAdd(el.position.y, R(el.size.height)))

\* the predicate of elements.find in handleMouseDown
Contains(el, point) ==
    /\ RLeq(el.position.x, point.x)
    /\ RLeq(point.x, RAdd(el.position.x, R(el.size.width)))
    /\ RLeq(el.position.y, point.y)
    /\ RLeq(point.y, RAdd(el.position.y, R(el.size.height)))

SetMin(S) == CHOOSE i \in S : \A j \in S : i <= j
SetMax(S) == CHOOSE i \in S : \A j \in S : j <= i

\* Array.prototype.find: the index of the first match, 0 when none
FindIndex(els, point) ==
    LET hits == {i \in 1..Len(els) : Contains(els[i], point)}
    IN  IF hits = {} THEN 0 ELSE SetMin(hits)

\* saveToHistory without the slice: the entries after the cursor stay
saveToHistory_KeepFuture(h, idx, els, paths) ==
    LET newHistory == Append(h, [elements |-> els, paths |-> paths])
    IN  [history |-> newHistory, historyIndex |-> idx + 1]

\* saveToHistory with the cursor set to newHistory.length
saveToHistory_IndexLength(h, idx, els, paths) ==
    LET newHistory == Append(SubSeq(h, 1, idx + 1), [elements |-> els, paths |-> paths])
    IN  [history |-> newHistory, historyIndex |-> Len(newHistory)]

\* saveToHistory with slice(0, historyIndex): the entry at the cursor is dropped
saveToHistory_DropCurrent(h, idx, els, paths) ==
    LET newHistory == Append(SubSeq(h, 1, idx), [elements |-> els, paths |-> paths])
    IN  [history |-> newHistory, historyIndex |-> Len(newHistory) - 1]

\* saveToHistory in the closure (h, idx, els, paths): the history and the index set
saveToHistory(h, idx, els, paths) ==
    LET newHistory == Append(SubSeq(h, 1, idx + 1), [elements |-> els, paths |-> paths])
    IN  [history |-> newHistory, historyIndex |-> Len(newHistory) - 1]

\* the element addElement builds
NewElement(id, type, position, count) ==
    [id |-> id, type |-> type, position |-> position,
     size |-> [width |-> IF type = "text" THEN 200 ELSE 100,
               height |-> IF type = "text" THEN 50 ELSE 100],
     content |-> IF type = "text" THEN "Double-click to edit"
                 ELSE IF type = "sticky" THEN "Type here..." ELSE "",
     style |-> [color |-> strokeColor,
                backgroundColor |-> IF type = "sticky" THEN "#fef08a" ELSE fillColor,
                fontSize |-> fontSize, strokeWidth |-> strokeWidth, opacity |-> 1],
     rotation |-> 0, zIndex |-> count]

\* prev.filter(el => el.id !== id) in deleteElement
WithoutId(els, id) ==
    LET F[i \in 0..Len(els)] ==
            IF i = 0 THEN <<>>
            ELSE IF els[i].id # id THEN Append(F[i - 1], els[i]) ELSE F[i - 1]
    IN  F[Len(els)]

\* a drag is followed while it leaves the elements on DocPoints, a pan while
\* it leaves the offset in PanOffsets
InBounds(position) == position \in DocPoints
PanInBounds(p) == p \in PanOffsets

(***************************************************************************)
(* Observers.  They read the handlers' steps and take no part in them.     *)
(***************************************************************************)
Doc == [elements |-> elements, paths |-> drawingPaths]
EmptyDoc == [elements |-> <<>>, paths |-> <<>>]
MountDoc == [elements |-> mountElements, paths |-> <<>>]

\* the step changed the document or the history
Edited == <<elements, drawingPaths, history, historyIndex>>' #
          <<elements, drawingPaths, history, historyIndex>>

\* what the handler op did, among the checkpointed mutations
Kind(op) ==
    IF op = "handleMouseDown" /\ currentTool \in CreationTools THEN "create"
    ELSE IF op = "handleMouseDown" /\ currentTool \in {"pen", "eraser"} THEN "stroke"
    ELSE IF op = "handleMouseUp" /\ isDrawing /\ currentPath # NullPath THEN "commit"
    ELSE IF op \in {"deleteElement", "clearCanvas", "handleUndo", "handleRedo"} THEN op
    ELSE "other"

\* law: since mount the session was n checkpointed mutations (a stroke counts
\* from pointer-down to pointer-up), then k undos, then k redos, and steps
\* that edit nothing; "branched" when a checkpointed mutation followed the
\* undos; "off" once it was anything else
LawInit == [phase |-> "mut", n |-> 0, k |-> 0, pending |-> FALSE, kinds |-> {},
            after |-> EmptyDoc]
LawOff == [phase |-> "off", n |-> 0, k |-> 0, pending |-> FALSE, kinds |-> {},
           after |-> EmptyDoc]

LawNext(op) ==
    LET kind == Kind(op) IN
    IF law.phase = "off" THEN LawOff
    ELSE IF kind \in {"create", "deleteElement", "clearCanvas"} THEN
        IF law.phase = "mut" /\ ~law.pending
        THEN [law EXCEPT !.n = @ + 1, !.kinds = @ \cup {kind}]
        ELSE IF law.phase = "undo" THEN [LawOff EXCEPT !.phase = "branched"]
        ELSE LawOff
    ELSE IF kind = "stroke" THEN
        IF law.phase = "mut" /\ ~law.pending
        THEN [law EXCEPT !.n = @ + 1, !.kinds = @ \cup {kind}, !.pending = TRUE]
        ELSE LawOff
    ELSE IF kind = "commit" THEN
        IF law.pending THEN [law EXCEPT !.pending = FALSE] ELSE LawOff
    ELSE IF kind = "handleUndo" THEN
        IF law.pending THEN LawOff
        ELSE IF law.phase = "mut" THEN
            IF law.n >= 1 THEN [law EXCEPT !.phase = "undo", !.k = 1, !.after = Doc]
            ELSE law
        ELSE IF law.phase = "undo" /\ law.k < law.n THEN [law EXCEPT !.k = @ + 1]
        ELSE LawOff
    ELSE IF kind = "handleRedo" THEN
        IF law.phase = "undo" /\ law.k = law.n THEN [law EXCEPT !.phase = "redo", !.k = 1]
        ELSE IF law.phase = "redo" /\ law.k < law.n THEN [law EXCEPT !.k = @ + 1]
        ELSE IF law.phase = "mut" /\ law.n = 0 THEN law
        ELSE LawOff
    ELSE IF Edited THEN LawOff ELSE law

\* cleared: a confirmed clear ran on doc ("cleared"), and one undo after it
\* ("undone"), with nothing else editing the document or the history
ClearedNone == [stage |-> "none", doc |-> EmptyDoc]

ClearedNext(op) ==
    IF op = "clearCanvas" THEN [stage |-> "cleared", doc |-> Doc]
    ELSE IF op = "handleUndo" /\ cleared.stage = "cleared" THEN [cleared EXCEPT !.stage = "undone"]
    ELSE IF Edited \/ op = "handleUndo" THEN ClearedNone
    ELSE cleared

\* gesture: a pen or eraser gesture began on (history, historyIndex, paths)
\* ("drawing"), the tool was switched in it ("switched"), the pointer then
\* went up or left the canvas ("ended")
GestureNone == [stage |-> "none", history |-> <<>>, historyIndex |-> -1, paths |-> <<>>]

GestureNext(op) ==
    LET kind == Kind(op) IN
    IF kind = "stroke"
    THEN [stage |-> "drawing", history |-> history, historyIndex |-> historyIndex,
          paths |-> drawingPaths]
    ELSE IF gesture.stage \in {"drawing", "switched"} /\ op = "handleMouseMove" THEN gesture
    ELSE IF gesture.stage \in {"drawing", "switched"} /\ op = "handleToolSelect"
    THEN [gesture EXCEPT !.stage = "switched"]
    ELSE IF gesture.stage = "switched" /\ op = "handleMouseUp"
    THEN [gesture EXCEPT !.stage = "ended"]
    ELSE IF gesture.stage = "ended" /\ ~Edited THEN gesture
    ELSE GestureNone

Observe(op) ==
    /\ law' = LawNext(op)
    /\ cleared' = ClearedNext(op)
    /\ gesture' = GestureNext(op)

docVars == <<elements, drawingPaths>>
histVars == <<history, historyIndex>>
viewVars == <<zoom, pan>>
settingVars == <<strokeColor, strokeWidth>>
vars == <<currentTool, elements, drawingPaths, zoom, pan, selectedElement,
          isDrawing, isPanning, currentPath, lastPanPoint, dragStart, isDragging,
          history, historyIndex, strokeColor, strokeWidth, mountElements,
          nextId, law, cleared, gesture, autoSaveStatus, timerArmed, inflight,
          failed, mounted, stored>>
saveVars == <<autoSaveStatus, timerArmed, inflight, failed, mounted, stored>>
obsVars == <<law, cleared, gesture>>

Init ==
    /\ currentTool = "cursor"
    /\ elements \in InitialElements
    /\ mountElements = elements
    /\ drawingPaths = <<>>
    /\ zoom = R(1)
    /\ pan = Pt(0, 0)
    /\ selectedElement = Null
    /\ isDrawing = FALSE
    /\ isPanning = FALSE
    /\ currentPath = NullPath
    /\ lastPanPoint = Pt(0, 0)
    /\ dragStart = Pt(0, 0)
    /\ isDragging = FALSE
    /\ history = <<>>
    /\ historyIndex = -1
    /\ strokeColor = "#000000"
    /\ strokeWidth = 2
    /\ nextId = 1
    /\ law = LawInit
    /\ cleared = ClearedNone
    /\ gesture = GestureNone
    /\ autoSaveStatus = "unsaved"
    /\ timerArmed = TRUE
    /\ inflight = <<>>
    /\ failed = FALSE
    /\ mounted = TRUE
    /\ stored = [elements |-> elements, zoom |-> zoom, pan |-> pan]

(***************************************************************************)
(* The handlers.                                                           *)
(***************************************************************************)
handleToolSelect(tool) ==
    /\ currentTool' = tool
    /\ selectedElement' = Null
    /\ UNCHANGED <<docVars, histVars, viewVars, settingVars, isDrawing, isPanning,
                   currentPath, lastPanPoint, dragStart, isDragging, mountElements,
                   nextId>>

handleMouseDown(e) ==
    LET point == getCanvasPoint(e) IN
    /\ dragStart' = point
    /\ UNCHANGED <<currentTool, viewVars, settingVars, mountElements>>
    /\ IF currentTool = "hand" THEN
           /\ isPanning' = TRUE
           /\ lastPanPoint' = [x |-> e.clientX, y |-> e.clientY]
           /\ UNCHANGED <<docVars, histVars, selectedElement, isDrawing, currentPath,
                          isDragging, nextId>>
       ELSE IF currentTool \in {"pen", "eraser"} THEN
           LET saved == saveToHistory(history, historyIndex, elements, drawingPaths) IN
           /\ nextId <= MaxIds
           /\ historyIndex + 2 <= MaxHistory
           /\ isDrawing' = TRUE
           /\ currentPath' = [id |-> nextId, points |-> <<point>>, color |-> strokeColor,
                              strokeWidth |-> strokeWidth, tool |-> currentTool]
           /\ nextId' = nextId + 1
           /\ history' = saved.history
           /\ historyIndex' = saved.historyIndex
           /\ UNCHANGED <<docVars, selectedElement, isPanning, lastPanPoint, isDragging>>
       ELSE IF currentTool = "cursor" THEN
           LET i == FindIndex(elements, point) IN
           /\ IF i # 0
              THEN selectedElement' = elements[i].id /\ isDragging' = TRUE
              ELSE selectedElement' = Null /\ UNCHANGED isDragging
           /\ UNCHANGED <<docVars, histVars, isDrawing, isPanning, currentPath,
                          lastPanPoint, nextId>>
       ELSE IF currentTool \in CreationTools THEN
           LET saved == saveToHistory(history, historyIndex, elements, drawingPaths) IN
           /\ nextId <= MaxIds
           /\ historyIndex + 2 <= MaxHistory
           /\ elements' = Append(elements,
                                 NewElement(nextId, currentTool, point, Len(elements)))
           /\ selectedElement' = nextId
           /\ nextId' = nextId + 1
           /\ history' = saved.history
           /\ historyIndex' = saved.historyIndex
           /\ UNCHANGED <<drawingPaths, isDrawing, isPanning, currentPath, lastPanPoint,
                          isDragging>>
       ELSE
           UNCHANGED <<docVars, histVars, selectedElement, isDrawing, isPanning,
                       currentPath, lastPanPoint, isDragging, nextId>>

\* handleMouseMove with a checkpoint at every move of a drag
handleMouseMove_DragCheckpoints(e) ==
    LET point == getCanvasPoint(e) IN
    /\ UNCHANGED <<currentTool, zoom, settingVars, mountElements, nextId,
                   selectedElement, isDrawing, isPanning, isDragging, drawingPaths>>
    /\ IF isPanning THEN
           LET newPan == [x |-> RAdd(pan.x, RSub(e.clientX, lastPanPoint.x)),
                          y |-> RAdd(pan.y, RSub(e.clientY, lastPanPoint.y))] IN
           /\ PanInBounds(newPan)
           /\ pan' = newPan
           /\ lastPanPoint' = [x |-> e.clientX, y |-> e.clientY]
           /\ UNCHANGED <<elements, currentPath, dragStart, histVars>>
       ELSE IF isDrawing /\ currentPath # NullPath THEN
           /\ Len(currentPath.points) < MaxPoints
           /\ currentPath' = [currentPath EXCEPT !.points = Append(@, point)]
           /\ UNCHANGED <<elements, pan, lastPanPoint, dragStart, histVars>>
       ELSE IF isDragging /\ selectedElement # Null THEN
           LET deltaX == RSub(point.x, dragStart.x)
               deltaY == RSub(point.y, dragStart.y)
               moved == [i \in 1..Len(elements) |->
                           IF elements[i].id = selectedElement
                           THEN [elements[i] EXCEPT
                                   !.position = [x |-> RAdd(@.x, deltaX),
                                                 y |-> RAdd(@.y, deltaY)]]
                           ELSE elements[i]]
               saved == saveToHistory(history, historyIndex, elements, drawingPaths)
           IN
           /\ \A i \in 1..Len(moved) : InBounds(moved[i].position)
           /\ historyIndex + 2 <= MaxHistory
           /\ elements' = moved
           /\ dragStart' = point
           /\ history' = saved.history
           /\ historyIndex' = saved.historyIndex
           /\ UNCHANGED <<pan, lastPanPoint, currentPath>>
       ELSE
           UNCHANGED <<elements, pan, lastPanPoint, currentPath, dragStart, histVars>>

handleMouseMove(e) ==
    LET point == getCanvasPoint(e) IN
    /\ UNCHANGED <<currentTool, histVars, zoom, settingVars, mountElements, nextId,
                   selectedElement, isDrawing, isPanning, isDragging, drawingPaths>>
    /\ IF isPanning THEN
           LET newPan == [x |-> RAdd(pan.x, RSub(e.clientX, lastPanPoint.x)),
                          y |-> RAdd(pan.y, RSub(e.clientY, lastPanPoint.y))] IN
           /\ PanInBounds(newPan)
           /\ pan' = newPan
           /\ lastPanPoint' = [x |-> e.clientX, y |-> e.clientY]
           /\ UNCHANGED <<elements, currentPath, dragStart>>
       ELSE IF isDrawing /\ currentPath # NullPath THEN
           /\ Len(currentPath.points) < MaxPoints
           /\ currentPath' = [currentPath EXCEPT !.points = Append(@, point)]
           /\ UNCHANGED <<elements, pan, lastPanPoint, dragStart>>
       ELSE IF isDragging /\ selectedElement # Null THEN
           LET deltaX == RSub(point.x, dragStart.x)
               deltaY == RSub(point.y, dragStart.y)
               moved == [i \in 1..Len(elements) |->
                           IF elements[i].id = selectedElement
                           THEN [elements[i] EXCEPT
                                   !.position = [x |-> RAdd(@.x, deltaX),
                                                 y |-> RAdd(@.y, deltaY)]]
                           ELSE elements[i]]
           IN
           /\ \A i \in 1..Len(moved) : InBounds(moved[i].position)
           /\ elements' = moved
           /\ dragStart' = point
           /\ UNCHANGED <<pan, lastPanPoint, currentPath>>
       ELSE
           UNCHANGED <<elements, pan, lastPanPoint, currentPath, dragStart>>

\* handleMouseUp with the stroke put first
handleMouseUp_StrokeFirst ==
    /\ IF isDrawing /\ currentPath # NullPath
       THEN /\ drawingPaths' = <<currentPath>> \o drawingPaths
            /\ currentPath' = NullPath
       ELSE UNCHANGED <<drawingPaths, currentPath>>
    /\ isDrawing' = FALSE
    /\ isPanning' = FALSE
    /\ isDragging' = FALSE
    /\ UNCHANGED <<currentTool, elements, histVars, viewVars, settingVars,
                   selectedElement, lastPanPoint, dragStart, mountElements, nextId>>

handleMouseUp ==
    /\ IF isDrawing /\ currentPath # NullPath
       THEN /\ drawingPaths' = Append(drawingPaths, currentPath)
            /\ currentPath' = NullPath
       ELSE UNCHANGED <<drawingPaths, currentPath>>
    /\ isDrawing' = FALSE
    /\ isPanning' = FALSE
    /\ isDragging' = FALSE
    /\ UNCHANGED <<currentTool, elements, histVars, viewVars, settingVars,
                   selectedElement, lastPanPoint, dragStart, mountElements, nextId>>

\* deleteElement with the saveToHistory of the render it is called in
deleteElementSets_FreshClosure(id, els, paths, h, idx, mount) ==
    LET saved == saveToHistory(h, idx, els, paths) IN
    [elements |-> WithoutId(els, id), selectedElement |-> Null,
     history |-> saved.history, historyIndex |-> saved.historyIndex]

\* what deleteElement(id) sets, called in the render (els, paths, h, idx):
\* useCallback(..., []) keeps the saveToHistory of the first render, whose
\* closure is the empty history and the elements at mount
deleteElementSets(id, els, paths, h, idx, mount) ==
    LET saved == saveToHistory(<<>>, -1, mount, <<>>) IN
    [elements |-> WithoutId(els, id), selectedElement |-> Null,
     history |-> saved.history, historyIndex |-> saved.historyIndex]

deleteElement(id) ==
    LET set == deleteElementSets(id, elements, drawingPaths, history, historyIndex,
                                 mountElements)
    IN
    /\ elements' = set.elements
    /\ selectedElement' = set.selectedElement
    /\ history' = set.history
    /\ historyIndex' = set.historyIndex
    /\ UNCHANGED <<currentTool, drawingPaths, viewVars, settingVars, isDrawing,
                   isPanning, currentPath, lastPanPoint, dragStart, isDragging,
                   mountElements, nextId>>

\* the Delete Element button of the properties panel, rendered while an element is selected
DeleteButton ==
    /\ selectedElement # Null
    /\ deleteElement(selectedElement)

\* undo that restores the entry at the cursor it leaves
undo_StaleEntry(h, idx, els, paths) ==
    IF idx > 0
    THEN LET prevState == h[idx + 1] IN
         [elements |-> prevState.elements, paths |-> prevState.paths, historyIndex |-> idx - 1]
    ELSE [elements |-> els, paths |-> paths, historyIndex |-> idx]

\* what handleUndo sets in the closure (h, idx), on the document (els, paths)
undo(h, idx, els, paths) ==
    IF idx > 0
    THEN LET prevState == h[(idx - 1) + 1] IN
         [elements |-> prevState.elements, paths |-> prevState.paths, historyIndex |-> idx - 1]
    ELSE [elements |-> els, paths |-> paths, historyIndex |-> idx]

handleUndo ==
    LET set == undo(history, historyIndex, elements, drawingPaths) IN
    /\ elements' = set.elements
    /\ drawingPaths' = set.paths
    /\ historyIndex' = set.historyIndex
    /\ UNCHANGED <<currentTool, history, viewVars, settingVars, selectedElement,
                   isDrawing, isPanning, currentPath, lastPanPoint, dragStart,
                   isDragging, mountElements, nextId>>

\* redo that goes round to the first entry at the end of the history
redo_Wraps(h, idx, els, paths) ==
    IF idx < Len(h) - 1
    THEN LET nextState == h[(idx + 1) + 1] IN
         [elements |-> nextState.elements, paths |-> nextState.paths, historyIndex |-> idx + 1]
    ELSE IF Len(h) > 0
    THEN [elements |-> h[1].elements, paths |-> h[1].paths, historyIndex |-> 0]
    ELSE [elements |-> els, paths |-> paths, historyIndex |-> idx]

\* what handleRedo sets in the closure (h, idx), on the document (els, paths)
redo(h, idx, els, paths) ==
    IF idx < Len(h) - 1
    THEN LET nextState == h[(idx + 1) + 1] IN
         [elements |-> nextState.elements, paths |-> nextState.paths, historyIndex |-> idx + 1]
    ELSE [elements |-> els, paths |-> paths, historyIndex |-> idx]

handleRedo ==
    LET set == redo(history, historyIndex, elements, drawingPaths) IN
    /\ elements' = set.elements
    /\ drawingPaths' = set.paths
    /\ historyIndex' = set.historyIndex
    /\ UNCHANGED <<currentTool, history, viewVars, settingVars, selectedElement,
                   isDrawing, isPanning, currentPath, lastPanPoint, dragStart,
                   isDragging, mountElements, nextId>>

clearCanvas(confirmed) ==
    /\ IF confirmed
       THEN LET saved == saveToHistory(history, historyIndex, elements, drawingPaths) IN
            /\ historyIndex + 2 <= MaxHistory
            /\ history' = saved.history
            /\ historyIndex' = saved.historyIndex
            /\ elements' = <<>>
            /\ drawingPaths' = <<>>
            /\ selectedElement' = Null
       ELSE UNCHANGED <<docVars, histVars, selectedElement>>
    /\ UNCHANGED <<currentTool, viewVars, settingVars, isDrawing, isPanning,
                   currentPath, lastPanPoint, dragStart, isDragging, mountElements,
                   nextId>>

\* Spec follows the document, the history and the selection.  The save
\* effects read them and write none of them; SaveSpec follows those.
Next ==
    \/ \E tool \in ToolInputs : handleToolSelect(tool) /\ Observe("handleToolSelect") /\ UNCHANGED saveVars
    \/ \E e \in Events : handleMouseDown(e) /\ Observe("handleMouseDown") /\ UNCHANGED saveVars
    \/ \E e \in Events : handleMouseMove(e) /\ Observe("handleMouseMove") /\ UNCHANGED saveVars
    \/ handleMouseUp /\ Observe("handleMouseUp") /\ UNCHANGED saveVars
    \/ DeleteButton /\ Observe("deleteElement") /\ UNCHANGED saveVars
    \/ handleUndo /\ Observe("handleUndo") /\ UNCHANGED saveVars
    \/ handleRedo /\ Observe("handleRedo") /\ UNCHANGED saveVars
    \/ clearCanvas(TRUE) /\ Observe("clearCanvas") /\ UNCHANGED saveVars
    \/ clearCanvas(FALSE) /\ Observe("declined") /\ UNCHANGED saveVars

Spec == Init /\ [][Next]_vars

(***************************************************************************)
(* updateElement, applied to elements and updates drawn from small sets.   *)
(***************************************************************************)
\* { ...updates }: the fields of the element are dropped
Merge_UpdatesOnly(el, updates) == updates

\* { ...el, ...updates }
Merge(el, updates) ==
    [f \in DOMAIN el \cup DOMAIN updates |->
        IF f \in DOMAIN updates THEN updates[f] ELSE el[f]]

updateElement(id, updates) ==
    /\ elements' = [i \in 1..Len(elements) |->
                        IF elements[i].id = id THEN Merge(elements[i], updates)
                        ELSE elements[i]]
    /\ UNCHANGED <<currentTool, drawingPaths, histVars, viewVars, settingVars,
                   selectedElement, isDrawing, isPanning, currentPath, lastPanPoint,
                   dragStart, isDragging, mountElements, nextId>>

\* the Partial<WhiteboardElement> values updateElement is called with
UpdateInputs ==
    {[content |-> c] : c \in {"", "A"}} \cup {[position |-> p] : p \in DocPoints}
        \cup {[content |-> "B", rotation |-> 90]}
        \cup {[size |-> [width |-> 0, height |-> -5]]}

\* the ids updateElement is called with: those of the elements and one of none
UpdateIds == 0..2

\* the elements of the whiteboard opened: a text and a sticky note as
\* addElement builds them
UpdateElements ==
    {<<>>,
     <<NewElement(0, "text", Pt(0, 0), 0)>>,
     <<NewElement(0, "text", Pt(0, 0), 0), NewElement(1, "sticky", Pt(40, 40), 1)>>}

UpdateInit ==
    /\ strokeColor = "#000000"
    /\ strokeWidth = 2
    /\ currentTool = "cursor"
    /\ elements \in UpdateElements
    /\ mountElements = elements
    /\ drawingPaths = <<>>
    /\ zoom = R(1)
    /\ pan = Pt(0, 0)
    /\ selectedElement = Null
    /\ isDrawing = FALSE
    /\ isPanning = FALSE
    /\ currentPath = NullPath
    /\ lastPanPoint = Pt(0, 0)
    /\ dragStart = Pt(0, 0)
    /\ isDragging = FALSE
    /\ history = <<>>
    /\ historyIndex = -1
    /\ nextId = 2
    /\ law = LawInit
    /\ cleared = ClearedNone
    /\ gesture = GestureNone
    /\ autoSaveStatus = "unsaved"
    /\ timerArmed = TRUE
    /\ inflight = <<>>
    /\ failed = FALSE
    /\ mounted = TRUE
    /\ stored = [elements |-> elements, zoom |-> zoom, pan |-> pan]

\* onClick of the overlay of a text or sticky element
ElementClick(id) ==
    /\ \E i \in 1..Len(elements) :
          elements[i].id = id /\ elements[i].type \in {"text", "sticky"}
    /\ selectedElement' = id
    /\ UNCHANGED <<currentTool, docVars, histVars, viewVars, settingVars, isDrawing,
                   isPanning, currentPath, lastPanPoint, dragStart, isDragging,
                   mountElements, nextId>>

UpdateNext ==
    \/ \E id \in UpdateIds, updates \in UpdateInputs :
          updateElement(id, updates) /\ Observe("updateElement") /\ UNCHANGED saveVars
    \/ \E id \in UpdateIds : ElementClick(id) /\ Observe("ElementClick") /\ UNCHANGED saveVars

UpdateSpec == UpdateInit /\ [][UpdateNext]_vars

(***************************************************************************)
(* The viewport handlers.  1.2 is the rational 6/5.                        *)
(***************************************************************************)
ZoomFactor == <<6, 5>>
MaxZoom == R(3)
MinZoom == <<1, 10>>

\* a zoom is followed while its terms are at most MaxZoomTerm
ZoomFollowed(z) == z[1] <= MaxZoomTerm /\ z[2] <= MaxZoomTerm

handleZoomIn ==
    LET z == RMin(RMul(zoom, ZoomFactor), MaxZoom) IN
    /\ ZoomFollowed(z)
    /\ zoom' = z
    /\ UNCHANGED <<currentTool, docVars, histVars, pan, settingVars, selectedElement,
                   isDrawing, isPanning, currentPath, lastPanPoint, dragStart,
                   isDragging, mountElements, nextId>>

\* handleZoomOut without the lower clamp
handleZoomOut_Unclamped ==
    LET z == RDiv(zoom, ZoomFactor) IN
    /\ ZoomFollowed(z)
    /\ zoom' = z
    /\ UNCHANGED <<currentTool, docVars, histVars, pan, settingVars, selectedElement,
                   isDrawing, isPanning, currentPath, lastPanPoint, dragStart,
                   isDragging, mountElements, nextId>>

handleZoomOut ==
    LET z == RMax(RDiv(zoom, ZoomFactor), MinZoom) IN
    /\ ZoomFollowed(z)
    /\ zoom' = z
    /\ UNCHANGED <<currentTool, docVars, histVars, pan, settingVars, selectedElement,
                   isDrawing, isPanning, currentPath, lastPanPoint, dragStart,
                   isDragging, mountElements, nextId>>

\* handleZoomReset with a checkpoint of the document
handleZoomReset_Checkpoints ==
    LET saved == saveToHistory(history, historyIndex, elements, drawingPaths) IN
    /\ zoom' = R(1)
    /\ pan' = Pt(0, 0)
    /\ history' = saved.history
    /\ historyIndex' = saved.historyIndex
    /\ UNCHANGED <<currentTool, docVars, settingVars, selectedElement,
                   isDrawing, isPanning, currentPath, lastPanPoint, dragStart,
                   isDragging, mountElements, nextId>>

handleZoomReset ==
    /\ zoom' = R(1)
    /\ pan' = Pt(0, 0)
    /\ UNCHANGED <<currentTool, docVars, histVars, settingVars, selectedElement,
                   isDrawing, isPanning, currentPath, lastPanPoint, dragStart,
                   isDragging, mountElements, nextId>>

(***************************************************************************)
(* The sessions that draw with the pen and the eraser, on a whiteboard     *)
(* that was stored with one element.                                       *)
(***************************************************************************)
PenTools == {"pen", "eraser"}

\* the element of the stored whiteboard; the ids 0..MaxIds are those of the
\* strokes of the session
StoredElement == [LoadedElement EXCEPT !.id = MaxIds + 1]

PenInit ==
    /\ currentTool = "cursor"
    /\ elements = <<StoredElement>>
    /\ mountElements = elements
    /\ drawingPaths = <<>>
    /\ zoom = R(1)
    /\ pan = Pt(0, 0)
    /\ selectedElement = Null
    /\ isDrawing = FALSE
    /\ isPanning = FALSE
    /\ currentPath = NullPath
    /\ lastPanPoint = Pt(0, 0)
    /\ dragStart = Pt(0, 0)
    /\ isDragging = FALSE
    /\ history = <<>>
    /\ historyIndex = -1
    /\ strokeColor = "#000000"
    /\ strokeWidth = 2
    /\ nextId = 0
    /\ law = LawInit
    /\ cleared = ClearedNone
    /\ gesture = GestureNone
    /\ autoSaveStatus = "unsaved"
    /\ timerArmed = TRUE
    /\ inflight = <<>>
    /\ failed = FALSE
    /\ mounted = TRUE
    /\ stored = [elements |-> elements, zoom |-> zoom, pan |-> pan]

PenNext ==
    \/ \E tool \in PenTools : handleToolSelect(tool) /\ Observe("handleToolSelect") /\ UNCHANGED saveVars
    \/ \E e \in Events : handleMouseDown(e) /\ Observe("handleMouseDown") /\ UNCHANGED saveVars
    \/ \E e \in Events : handleMouseMove(e) /\ Observe("handleMouseMove") /\ UNCHANGED saveVars
    \/ handleMouseUp /\ Observe("handleMouseUp") /\ UNCHANGED saveVars

PenSpec == PenInit /\ [][PenNext]_vars

(***************************************************************************)
(* The sessions that create two arrows and delete, on a whiteboard that    *)
(* was stored with one element.                                            *)
(***************************************************************************)
StackTools == {"cursor", "arrow"}

StackNext ==
    \/ \E tool \in StackTools : handleToolSelect(tool) /\ UNCHANGED <<saveVars, obsVars>>
    \/ \E e \in Events : handleMouseDown(e) /\ UNCHANGED <<saveVars, obsVars>>
    \/ handleMouseUp /\ UNCHANGED <<saveVars, obsVars>>
    \/ DeleteButton /\ UNCHANGED <<saveVars, obsVars>>
    \/ handleUndo /\ UNCHANGED <<saveVars, obsVars>>
    \/ handleRedo /\ UNCHANGED <<saveVars, obsVars>>

StackSpec == PenInit /\ [][StackNext]_vars

(***************************************************************************)
(* The sessions that create text, sticky notes and rectangles.             *)
(***************************************************************************)
CreateTools == {"text", "sticky", "rectangle"}

\* the canvas gets the mouse event: the pointer is over no text, sticky note
\* or rectangle, which are painted above the canvas and take the event
OnCanvas(e) ==
    \A i \in 1..Len(elements) :
        ~(elements[i].type \in CreateTools /\ Contains(elements[i], getCanvasPoint(e)))

CreateNext ==
    \/ \E tool \in CreateTools : handleToolSelect(tool) /\ UNCHANGED <<saveVars, obsVars>>
    \/ \E e \in Events : OnCanvas(e) /\ handleMouseDown(e) /\ UNCHANGED <<saveVars, obsVars>>
    \/ handleMouseUp /\ UNCHANGED <<saveVars, obsVars>>
    \/ DeleteButton /\ UNCHANGED <<saveVars, obsVars>>
    \/ handleUndo /\ UNCHANGED <<saveVars, obsVars>>
    \/ handleRedo /\ UNCHANGED <<saveVars, obsVars>>

CreateSpec == Init /\ [][CreateNext]_vars

(***************************************************************************)
(* The sessions of the viewport: the hand tool and the zoom buttons.       *)
(***************************************************************************)
\* content.zoom of the whiteboard that is opened: 1 in a new whiteboard, the
\* lower clamp in one stored after thirteen presses of zoom out
StoredZooms == {R(1), MinZoom}

\* pointer positions on the screen
ScreenPoints == {[clientX |-> R(x), clientY |-> R(y)] : x \in {0, 7, 40}, y \in {0, 3}}
ViewEvents == {[clientX |-> R(x), clientY |-> R(0)] : x \in {0, 40}}

ViewInit ==
    /\ currentTool = "cursor"
    /\ elements = <<>>
    /\ mountElements = elements
    /\ drawingPaths = <<>>
    /\ zoom \in StoredZooms
    /\ pan = Pt(0, 0)
    /\ selectedElement = Null
    /\ isDrawing = FALSE
    /\ isPanning = FALSE
    /\ currentPath = NullPath
    /\ lastPanPoint = Pt(0, 0)
    /\ dragStart = Pt(0, 0)
    /\ isDragging = FALSE
    /\ history = <<>>
    /\ historyIndex = -1
    /\ strokeColor = "#000000"
    /\ strokeWidth = 2
    /\ nextId = 1
    /\ law = LawInit
    /\ cleared = ClearedNone
    /\ gesture = GestureNone
    /\ autoSaveStatus = "unsaved"
    /\ timerArmed = TRUE
    /\ inflight = <<>>
    /\ failed = FALSE
    /\ mounted = TRUE
    /\ stored = [elements |-> elements, zoom |-> zoom, pan |-> pan]

ViewNext ==
    \/ handleToolSelect("hand") /\ UNCHANGED <<saveVars, obsVars>>
    \/ \E e \in ViewEvents : handleMouseDown(e) /\ UNCHANGED <<saveVars, obsVars>>
    \/ \E e \in ViewEvents : handleMouseMove(e) /\ UNCHANGED <<saveVars, obsVars>>
    \/ handleMouseUp /\ UNCHANGED <<saveVars, obsVars>>
    \/ handleZoomIn /\ UNCHANGED <<saveVars, obsVars>>
    \/ handleZoomOut /\ UNCHANGED <<saveVars, obsVars>>
    \/ handleZoomReset /\ UNCHANGED <<saveVars, obsVars>>

ViewSpec == ViewInit /\ [][ViewNext]_vars

(***************************************************************************)
(* The sessions that mix the viewport with the history: arrows, the hand   *)
(* tool, the zoom buttons, clear, undo and redo.                           *)
(***************************************************************************)
\* the zooms SaveSpec and TrackSpec follow: one press of a zoom button away from 1
SaveZooms == {R(1), ZoomFactor, RDiv(R(1), ZoomFactor)}
TrackTools == {"arrow", "hand"}

TrackNext ==
    \/ \E tool \in TrackTools : handleToolSelect(tool) /\ UNCHANGED <<saveVars, obsVars>>
    \/ \E e \in ViewEvents : handleMouseDown(e) /\ UNCHANGED <<saveVars, obsVars>>
    \/ \E e \in ViewEvents : handleMouseMove(e) /\ UNCHANGED <<saveVars, obsVars>>
    \/ handleMouseUp /\ UNCHANGED <<saveVars, obsVars>>
    \/ handleUndo /\ UNCHANGED <<saveVars, obsVars>>
    \/ handleRedo /\ UNCHANGED <<saveVars, obsVars>>
    \/ clearCanvas(TRUE) /\ UNCHANGED <<saveVars, obsVars>>
    \/ handleZoomIn /\ zoom' \in SaveZooms /\ UNCHANGED <<saveVars, obsVars>>
    \/ handleZoomOut /\ zoom' \in SaveZooms /\ UNCHANGED <<saveVars, obsVars>>
    \/ handleZoomReset /\ UNCHANGED <<saveVars, obsVars>>

TrackSpec == Init /\ [][TrackNext]_vars

(***************************************************************************)
(* Saving: the auto-save effect, the mark-unsaved effect, handleSaveManual *)
(* and the settling of onSave.                                             *)
(***************************************************************************)
editorVars == <<currentTool, elements, drawingPaths, zoom, pan, selectedElement,
                isDrawing, isPanning, currentPath, lastPanPoint, dragStart,
                isDragging, history, historyIndex, strokeColor, strokeWidth,
                mountElements, nextId>>

\* the handler op gave elements, zoom, pan or drawingPaths a new value: a new
\* array or object, or another number
SetsDocument(op) ==
    CASE op = "handleMouseDown" -> currentTool \in CreationTools
      [] op = "handleMouseMove" ->
            \/ isPanning
            \/ ~(isDrawing /\ currentPath # NullPath) /\ isDragging /\ selectedElement # Null
      [] op = "handleMouseUp" -> isDrawing /\ currentPath # NullPath
      [] op = "handleUndo" -> historyIndex > 0
      [] op = "handleRedo" -> historyIndex < Len(history) - 1
      [] op \in {"deleteElement", "clearCanvas", "handleZoomReset"} -> TRUE
      [] op \in {"handleZoomIn", "handleZoomOut"} -> zoom' # zoom
      [] OTHER -> FALSE

\* AfterRender with the pending onSave calls dropped by an edit
AfterRender_CancelsSave(op) ==
    /\ IF SetsDocument(op)
       THEN autoSaveStatus' = "unsaved" /\ timerArmed' = TRUE /\ inflight' = <<>>
       ELSE UNCHANGED <<autoSaveStatus, timerArmed, inflight>>
    /\ UNCHANGED <<failed, mounted, stored, obsVars>>

\* the effects that run after the render that follows the handler op: the
\* mark-unsaved effect sets the status, the auto-save effect arms its timer anew
AfterRender(op) ==
    /\ IF SetsDocument(op)
       THEN autoSaveStatus' = "unsaved" /\ timerArmed' = TRUE
       ELSE UNCHANGED <<autoSaveStatus, timerArmed>>
    /\ UNCHANGED <<inflight, failed, mounted, stored, obsVars>>

\* content of the whiteboard handed to onSave: whiteboard.content with the
\* elements, zoom and pan of the render
Content == [elements |-> elements, zoom |-> zoom, pan |-> pan]

\* the document of the editor opened on a stored content: elements, zoom and
\* pan come from the content, drawingPaths starts empty
Reopen(content) ==
    [elements |-> content.elements, paths |-> <<>>, zoom |-> content.zoom,
     pan |-> content.pan]

\* the timer of the auto-save effect fires, in the render that armed it
TimerFires ==
    /\ timerArmed
    /\ IF autoSaveStatus = "unsaved"
       THEN /\ Len(inflight) < MaxInFlight
            /\ autoSaveStatus' = "saving"
            /\ inflight' = Append(inflight, Content)
            /\ timerArmed' = TRUE
       ELSE /\ timerArmed' = FALSE
            /\ UNCHANGED <<autoSaveStatus, inflight>>
    /\ UNCHANGED <<editorVars, failed, mounted, stored, obsVars>>

handleSaveManual ==
    /\ Len(inflight) < MaxInFlight
    /\ autoSaveStatus' = "saving"
    /\ inflight' = Append(inflight, Content)
    /\ timerArmed' = (timerArmed \/ autoSaveStatus # "saving")
    /\ UNCHANGED <<editorVars, failed, mounted, stored, obsVars>>

Remove(s, i) == SubSeq(s, 1, i - 1) \o SubSeq(s, i + 1, Len(s))

\* the i-th onSave call resolves: updateWhiteboard stored the whiteboard
SaveResolves(i) ==
    /\ i \in 1..Len(inflight)
    /\ inflight' = Remove(inflight, i)
    /\ autoSaveStatus' = "saved"
    /\ timerArmed' = TRUE
    /\ failed' = FALSE
    /\ UNCHANGED mounted
    /\ UNCHANGED <<editorVars, obsVars>>

\* observer of SaveResolves(i): db.updateWhiteboard wrote the content of the call
Written(i) == stored' = inflight[i]

\* SaveRejects with the document taken back to the content that was handed
SaveRejects_Reverts(i) ==
    /\ i \in 1..Len(inflight)
    /\ inflight' = Remove(inflight, i)
    /\ autoSaveStatus' = "unsaved"
    /\ timerArmed' = TRUE
    /\ failed' = TRUE
    /\ UNCHANGED <<mounted, stored>>
    /\ elements' = inflight[i].elements
    /\ zoom' = inflight[i].zoom
    /\ pan' = inflight[i].pan
    /\ UNCHANGED <<currentTool, drawingPaths, selectedElement, isDrawing, isPanning,
                   currentPath, lastPanPoint, dragStart, isDragging, histVars,
                   settingVars, mountElements, nextId, obsVars>>

\* SaveRejects with the status left at what it was
SaveRejects_KeepsStatus(i) ==
    /\ i \in 1..Len(inflight)
    /\ inflight' = Remove(inflight, i)
    /\ failed' = TRUE
    /\ UNCHANGED <<mounted, stored>>
    /\ UNCHANGED <<autoSaveStatus, timerArmed, editorVars, obsVars>>

\* the i-th onSave call rejects: db.updateWhiteboard threw
SaveRejects(i) ==
    /\ i \in 1..Len(inflight)
    /\ inflight' = Remove(inflight, i)
    /\ autoSaveStatus' = "unsaved"
    /\ timerArmed' = TRUE
    /\ failed' = TRUE
    /\ UNCHANGED <<mounted, stored>>
    /\ UNCHANGED <<editorVars, obsVars>>

\* the toolbar buttons and the pointer position of the sessions SaveSpec follows
SaveTools == {"pen", "arrow"}
SaveEvents == {toScreenCoords(Pt(0, 0))}

SaveNext ==
    \/ \E tool \in SaveTools : handleToolSelect(tool) /\ AfterRender("handleToolSelect")
    \/ \E e \in SaveEvents : handleMouseDown(e) /\ AfterRender("handleMouseDown")
    \/ \E e \in SaveEvents : handleMouseMove(e) /\ AfterRender("handleMouseMove")
    \/ handleMouseUp /\ AfterRender("handleMouseUp")
    \/ DeleteButton /\ AfterRender("deleteElement")
    \/ handleUndo /\ AfterRender("handleUndo")
    \/ handleRedo /\ AfterRender("handleRedo")
    \/ clearCanvas(TRUE) /\ AfterRender("clearCanvas")
    \/ handleZoomIn /\ zoom' \in SaveZooms /\ AfterRender("handleZoomIn")
    \/ handleZoomOut /\ zoom' \in SaveZooms /\ AfterRender("handleZoomOut")
    \/ handleZoomReset /\ AfterRender("handleZoomReset")
    \/ TimerFires
    \/ handleSaveManual
    \/ \E i \in 1..MaxInFlight : SaveResolves(i) /\ UNCHANGED stored
    \/ \E i \in 1..MaxInFlight : SaveRejects(i)

SaveSpec == Init /\ [][SaveNext]_vars

(***************************************************************************)
(* The sessions in which every save succeeds and the edits are finitely    *)
(* many: one arrow, one zoom in, clears.  The storage is followed.  The    *)
(* timer fires unless a render clears it and a pending onSave settles:     *)
(* weak fairness of both.                                                  *)
(***************************************************************************)
DurableNext ==
    \/ handleToolSelect("arrow") /\ AfterRender("handleToolSelect")
    \/ \E e \in SaveEvents : handleMouseDown(e) /\ AfterRender("handleMouseDown")
    \/ handleMouseUp /\ AfterRender("handleMouseUp")
    \/ clearCanvas(TRUE) /\ AfterRender("clearCanvas")
    \/ handleZoomIn /\ zoom' \in SaveZooms /\ AfterRender("handleZoomIn")
    \/ TimerFires
    \/ \E i \in 1..MaxInFlight : SaveResolves(i) /\ Written(i)

DurableSpec ==
    /\ Init
    /\ [][DurableNext]_vars
    /\ WF_vars(TimerFires)
    /\ WF_vars(\E i \in 1..MaxInFlight : SaveResolves(i) /\ Written(i))

(***************************************************************************)
(* The sessions that open a whiteboard and change nothing of its content:  *)
(* from the first render, before its effects have run, through tool        *)
(* selections, selections of elements and pointer gestures that set none   *)
(* of elements, drawingPaths, zoom and pan.                                *)
(***************************************************************************)
OpenInit ==
    /\ currentTool = "cursor"
    /\ elements \in InitialElements
    /\ mountElements = elements
    /\ drawingPaths = <<>>
    /\ zoom = R(1)
    /\ pan = Pt(0, 0)
    /\ selectedElement = Null
    /\ isDrawing = FALSE
    /\ isPanning = FALSE
    /\ currentPath = NullPath
    /\ lastPanPoint = Pt(0, 0)
    /\ dragStart = Pt(0, 0)
    /\ isDragging = FALSE
    /\ history = <<>>
    /\ historyIndex = -1
    /\ strokeColor = "#000000"
    /\ strokeWidth = 2
    /\ nextId = 1
    /\ law = LawInit
    /\ cleared = ClearedNone
    /\ gesture = GestureNone
    /\ autoSaveStatus = "saved"
    /\ timerArmed = FALSE
    /\ inflight = <<>>
    /\ failed = FALSE
    /\ mounted = FALSE
    /\ stored = [elements |-> elements, zoom |-> zoom, pan |-> pan]

\* the effects of the first render run: the auto-save effect arms its timer,
\* the mark-unsaved effect sets the status, and the render that follows arms
\* the timer anew with that status
Mount ==
    /\ ~mounted
    /\ mounted' = TRUE
    /\ autoSaveStatus' = "unsaved"
    /\ timerArmed' = TRUE
    /\ UNCHANGED <<editorVars, inflight, failed, stored, obsVars>>

OpenTools == {"cursor", "hand", "pen"}

OpenNext ==
    \/ Mount
    \/ \E tool \in OpenTools :
          mounted /\ handleToolSelect(tool) /\ AfterRender("handleToolSelect")
    \/ \E e \in Events :
          /\ mounted /\ ~SetsDocument("handleMouseDown")
          /\ handleMouseDown(e) /\ AfterRender("handleMouseDown")
    \/ \E e \in Events :
          /\ mounted /\ ~SetsDocument("handleMouseMove")
          /\ handleMouseMove(e) /\ AfterRender("handleMouseMove")
    \/ /\ mounted /\ ~SetsDocument("handleMouseUp")
       /\ handleMouseUp /\ AfterRender("handleMouseUp")
    \/ TimerFires
    \/ \E i \in 1..MaxInFlight : SaveResolves(i) /\ Written(i)
    \/ \E i \in 1..MaxInFlight : SaveRejects(i)

OpenSpec == OpenInit /\ [][OpenNext]_vars

(***************************************************************************)
(* The sessions in which the user stops editing once a save has failed.    *)
(* The timer of the last render is not cleared again there, so it fires:   *)
(* weak fairness of TimerFires.                                            *)
(***************************************************************************)
RetryNext ==
    \/ \E tool \in SaveTools : handleToolSelect(tool) /\ AfterRender("handleToolSelect")
    \/ ~failed /\ \E e \in SaveEvents : handleMouseDown(e) /\ AfterRender("handleMouseDown")
    \/ ~failed /\ \E e \in SaveEvents : handleMouseMove(e) /\ AfterRender("handleMouseMove")
    \/ ~failed /\ handleMouseUp /\ AfterRender("handleMouseUp")
    \/ TimerFires
    \/ \E i \in 1..MaxInFlight : SaveResolves(i) /\ UNCHANGED stored
    \/ \E i \in 1..MaxInFlight : SaveRejects(i)

RetrySpec == Init /\ [][RetryNext]_vars /\ WF_vars(TimerFires)

(***************************************************************************)
(* Properties.                                                             *)
(***************************************************************************)

\* C1: n checkpointed mutations from mount followed by n undos leave the
\* document as it was before the first mutation, and n redos after them
\* leave it as it was after the last mutation.
UndoRedoInverseLaw ==
    /\ (law.phase = "undo" /\ law.k = law.n => Doc = MountDoc)
    /\ (law.phase = "redo" /\ law.k = law.n => Doc = law.after)

\* C2: with an empty history, one element creation or one pen stroke followed
\* by one undo leaves the document without the element or the stroke.
SingleUndoRemovesFirstMutation ==
    law.phase = "undo" /\ law.n = 1 /\ law.k = 1 /\ law.kinds \subseteq {"create", "stroke"}
        => Len(elements) = Len(mountElements) /\ Len(drawingPaths) = 0

\* C3: one undo right after a confirmed clearAll leaves exactly the elements
\* and strokes the clear ran on.
UndoRestoresCleared ==
    cleared.stage = "undone" => Doc = cleared.doc

\* the steps that take a checkpoint
CheckpointStep ==
    \/ \E e \in Events :
          handleMouseDown(e) /\ currentTool \in {"pen", "eraser"} \cup CreationTools
    \/ DeleteButton
    \/ clearCanvas(TRUE)

\* C4: right after a checkpoint the cursor is the last index of the history,
\* a redo changes nothing, and no entry that was after the cursor is left.
CheckpointDiscardsRedo ==
    [][CheckpointStep =>
          /\ historyIndex' = Len(history') - 1
          /\ redo(history', historyIndex', elements', drawingPaths')
                 = [elements |-> elements', paths |-> drawingPaths',
                    historyIndex |-> historyIndex']
          /\ Len(history') <= historyIndex + 2]_vars

\* a checkpoint was taken after an undo, and two entries are in the history
CheckpointAfterUndo ==
    law.phase = "branched" /\ Len(history) = 2 /\ historyIndex = 1

\* C5: the cursor is -1 or an index of the history.
HistoryIndexInRange ==
    /\ historyIndex >= -1
    /\ historyIndex <= Len(history) - 1

\* the cursor is below the last entry, which an undo leaves
CursorBelowLast ==
    historyIndex = 0 /\ Len(history) = 2

\* C6: the checkpoint at the start of a pen or eraser gesture, or at the
\* creation of an element, keeps the entries 0..cursor and appends one entry,
\* the document before the mutation, which has neither the new element nor
\* the new stroke.
CheckpointIsPreMutation ==
    [][\A e \in Events :
          handleMouseDown(e) /\ currentTool \in {"pen", "eraser"} \cup CreationTools =>
              /\ history' = Append(SubSeq(history, 1, historyIndex + 1), Doc)
              /\ Len(history') = historyIndex + 2
              /\ \A i \in 1..Len(history'[Len(history')].elements) :
                    history'[Len(history')].elements[i].id # nextId
              /\ \A i \in 1..Len(history'[Len(history')].paths) :
                    history'[Len(history')].paths[i].id # nextId
              /\ currentTool \in CreationTools =>
                    elements' = Append(history'[Len(history')].elements,
                                       elements'[Len(elements')])]_vars

\* an element was created after another checkpointed mutation: the last
\* entry is the document without it
CreatedAfterCheckpoint ==
    /\ law.phase = "mut" /\ law.n = 2 /\ "create" \in law.kinds
    /\ Len(history) = 2 /\ historyIndex = 1
    /\ selectedElement = nextId - 1
    /\ elements = Append(history[2].elements, elements[Len(elements)])

\* C7: deleting the selected element keeps the entries 0..cursor and appends
\* the document before the deletion.
DeleteIsCheckpointed ==
    [][DeleteButton =>
          /\ history' = Append(SubSeq(history, 1, historyIndex + 1), Doc)
          /\ historyIndex' = Len(history') - 1]_vars

\* the axis-aligned box of an element: position to position + size, edges included
InBox(el, p) ==
    /\ RLeq(el.position.x, p.x) /\ RLeq(p.x, RAdd(el.position.x, R(el.size.width)))
    /\ RLeq(el.position.y, p.y) /\ RLeq(p.y, RAdd(el.position.y, R(el.size.height)))

BoxesAt(p) == {i \in 1..Len(elements) : InBox(elements[i], p)}

\* C8: a pointer-down with the select tool on a point in the boxes of two or
\* more elements selects the one that is last in the paint order.
SelectsTopmost ==
    [][\A e \in Events :
          handleMouseDown(e) /\ currentTool = "cursor"
              /\ Cardinality(BoxesAt(getCanvasPoint(e))) >= 2 =>
                  selectedElement' = elements[SetMax(BoxesAt(getCanvasPoint(e)))].id]_vars

ToolSwitchCancelsGesture ==
    gesture.stage = "ended" =>
        /\ drawingPaths = gesture.paths
        /\ history = gesture.history
        /\ historyIndex = gesture.historyIndex

\* C11: a second deleteElement(id) right after the first changes nothing:
\* what it would set from the state the first left is that state.
DeleteIdempotent ==
    [][\A id \in 0..MaxIds :
          deleteElement(id) =>
              /\ deleteElementSets(id, elements', drawingPaths', history', historyIndex',
                                   mountElements')
                     = [elements |-> elements', selectedElement |-> selectedElement',
                        history |-> history', historyIndex |-> historyIndex']
              /\ drawingPaths' = drawingPaths]_vars

\* an element was deleted after another checkpointed mutation
DeletedOnce ==
    /\ law.phase = "mut" /\ law.n = 2 /\ "deleteElement" \in law.kinds
    /\ selectedElement = Null /\ historyIndex = 0

\* the elements with the id
WithId(els, id) == {i \in 1..Len(els) : els[i].id = id}

\* C12: updateElement(id, updates) with an id of no element changes nothing;
\* with the id of an element it changes that element only, and only in the
\* fields of updates; strokes, selection, history and cursor are unchanged.
UpdateOnlyMatching ==
    [][\A id \in UpdateIds, updates \in UpdateInputs :
          updateElement(id, updates) =>
              /\ WithId(elements, id) = {} => elements' = elements
              /\ Len(elements') = Len(elements)
              /\ \A i \in 1..Len(elements) :
                    IF i \in WithId(elements, id)
                    THEN /\ DOMAIN elements'[i] = DOMAIN elements[i]
                         /\ \A f \in DOMAIN elements[i] :
                               elements'[i][f] = IF f \in DOMAIN updates THEN updates[f]
                                                 ELSE elements[i][f]
                    ELSE elements'[i] = elements[i]
              /\ UNCHANGED <<drawingPaths, selectedElement, history, historyIndex>>]_vars

\* the sticky note was given a content and a rotation, the text was not
StickyUpdated ==
    /\ Len(elements) = 2
    /\ elements[2].content = "B" /\ elements[2].rotation = 90
    /\ elements[1] = mountElements[1]
    /\ selectedElement = 0

\* a save started in the step: onSave was called with one more content
SaveStarts == Len(inflight') = Len(inflight) + 1

\* the content handed over by the save that started last
Handed == inflight[Len(inflight)]

\* C13: every save, automatic or manual, hands storage the whole current
\* document: the editor opened on the handed content shows the elements, the
\* strokes, the zoom and the pan of the moment of the save.
SaveHandsWholeDocument ==
    [][SaveStarts =>
          Reopen(Handed') = [elements |-> elements, paths |-> drawingPaths,
                             zoom |-> zoom, pan |-> pan]]_vars

\* the pointer-up that ends a gesture can be handled
PointerUpEnabled == ENABLED (handleMouseUp /\ AfterRender("handleMouseUp"))

\* the step is a pointer-down of a creation tool
Creates == currentTool \in CreationTools /\ \E e \in SaveEvents : handleMouseDown(e)

\* C14: a save that fails changes nothing of the in-memory document (elements,
\* strokes, zoom, pan, selection, history); the status becomes "unsaved"; the
\* editing handlers stay enabled after the failure.
FailedSaveKeepsDocument ==
    [][/\ \A i \in 1..MaxInFlight :
             SaveRejects(i) =>
                 /\ UNCHANGED <<elements, drawingPaths, zoom, pan, selectedElement,
                                history, historyIndex>>
                 /\ autoSaveStatus' = "unsaved"
       /\ failed => PointerUpEnabled
       /\ (failed /\ Creates) => Len(elements') = Len(elements) + 1]_vars

\* a save of a drawn stroke's document failed and the stroke is still there
StrokeAfterFailedSave ==
    /\ failed /\ inflight = <<>> /\ autoSaveStatus = "unsaved"
    /\ Len(drawingPaths) = 1

\* the step changes the document
DocumentChanges == <<elements, drawingPaths, zoom, pan>>' # <<elements, drawingPaths, zoom, pan>>

\* C16: while a save is in flight the editing handlers are enabled and take
\* effect, and an edit leaves the save in flight, with the content it was
\* handed.
EditKeepsSaveInFlight ==
    [][/\ (inflight # <<>> /\ DocumentChanges) =>
             /\ inflight' = inflight
             /\ autoSaveStatus' = "unsaved"
       /\ inflight # <<>> => PointerUpEnabled
       /\ (inflight # <<>> /\ Creates) =>
             /\ Len(elements') = Len(elements) + 1
             /\ selectedElement' = elements'[Len(elements')].id]_vars

\* an element was created while a save was in flight, and the save still is
EditedDuringSave ==
    /\ inflight # <<>> /\ ~failed /\ autoSaveStatus = "unsaved"
    /\ Len(elements) = Len(Handed.elements) + 1

\* C15: after a failed save, with no further edit of the user, the timer is
\* armed again and another save starts by itself; a save that succeeds sets
\* the status to "saved".
FailedSaveIsRetried ==
    /\ [](failed /\ autoSaveStatus = "unsaved" => timerArmed)
    /\ (failed /\ inflight = <<>>) ~> (failed /\ autoSaveStatus = "saving" /\ inflight # <<>>)
    /\ [][\A i \in 1..MaxInFlight : SaveResolves(i) => autoSaveStatus' = "saved"]_vars

\* the retry of a failed save is in flight, with the stroke drawn before
RetryInFlight ==
    /\ failed /\ autoSaveStatus = "saving" /\ Len(inflight) = 1
    /\ Len(drawingPaths) = 1

\* C17: after any sequence of zoom in, zoom out and reset, from a zoom in
\* [0.1, 3], the zoom is in [0.1, 3]: at most 3, at least 0.1, never 0.
ZoomInRange ==
    /\ RLeq(MinZoom, zoom)
    /\ RLeq(zoom, MaxZoom)
    /\ zoom[1] # 0

\* the zoom is at the upper clamp and the view was panned
ZoomAtMax == zoom = MaxZoom /\ pan = Pt(40, 0)

DefaultSize(kind) ==
    IF kind = "text" THEN [width |-> 200, height |-> 50]
    ELSE IF kind = "sticky" THEN [width |-> 150, height |-> 150]
    ELSE [width |-> 100, height |-> 100]

\* C19: a pointer-down of a creation tool appends exactly one element, at the
\* pointer's position, with the default size of its kind (text 200x50, sticky
\* note 150x150, others 100x100), zIndex the number of elements before, the
\* colour, stroke width and font size of the tool settings, and selects it;
\* the elements that existed are unchanged.
AddElementDefaults ==
    [][\A e \in Events :
          (currentTool \in CreationTools /\ handleMouseDown(e)) =>
              LET el == elements'[Len(elements')] IN
              /\ Len(elements') = Len(elements) + 1
              /\ SubSeq(elements', 1, Len(elements)) = elements
              /\ el.type = currentTool
              /\ el.position = getCanvasPoint(e)
              /\ el.size = DefaultSize(currentTool)
              /\ el.zIndex = Len(elements)
              /\ el.style.color = strokeColor
              /\ el.style.strokeWidth = strokeWidth
              /\ el.style.fontSize = fontSize
              /\ selectedElement' = el.id]_vars

\* C20: a pen or eraser gesture, pointer-down at p0, moves at p1..pn,
\* pointer-up, appends exactly one stroke, last, with the points p0..pn in
\* that order, the colour and the width of the tool settings at pointer-down
\* and the tool as its mode; the strokes committed before and the elements
\* are unchanged.
GestureAppendsOneStroke ==
    /\ [](gesture.stage = "drawing" =>
             /\ isDrawing /\ currentPath # NullPath
             /\ drawingPaths = gesture.paths
             /\ currentPath.tool = currentTool
             /\ currentPath.color = strokeColor
             /\ currentPath.strokeWidth = strokeWidth)
    /\ [][/\ \A e \in Events :
               (currentTool \in PenTools /\ handleMouseDown(e)) =>
                   /\ currentPath'.points = <<getCanvasPoint(e)>>
                   /\ UNCHANGED <<elements, drawingPaths>>
          /\ \A e \in Events :
               (gesture.stage = "drawing" /\ handleMouseMove(e)) =>
                   /\ currentPath' = [currentPath EXCEPT
                                         !.points = Append(@, getCanvasPoint(e))]
                   /\ UNCHANGED <<elements, drawingPaths>>
          /\ (gesture.stage = "drawing" /\ handleMouseUp) =>
                   /\ drawingPaths' = Append(gesture.paths, currentPath)
                   /\ elements' = elements]_vars

\* a second stroke, of two points, was drawn with the eraser after a first
TwoStrokes ==
    /\ Len(drawingPaths) = 2 /\ ~isDrawing /\ currentPath = NullPath
    /\ drawingPaths[2].tool = "eraser" /\ drawingPaths[1].tool = "pen"
    /\ drawingPaths[2].points = <<Pt(0, 0), Pt(40, 40)>>
    /\ elements = <<StoredElement>>

\* C21: every element has a width and a height of at least 1 and an opacity
\* in [0, 1]; an updateElement that carries a zero or negative size leaves
\* the element with a size of at least 1x1.
ElementGeometryValid ==
    \A i \in 1..Len(elements) :
        /\ elements[i].size.width >= 1
        /\ elements[i].size.height >= 1
        /\ elements[i].style.opacity >= 0
        /\ elements[i].style.opacity <= 1

\* C22: undo and redo leave zoom and pan unchanged; the zoom buttons and the
\* pan gesture of the hand tool (pointer-down, the moves that pan,
\* pointer-up) leave elements, strokes, history and cursor unchanged.
ViewportNotTracked ==
    [][/\ (handleUndo \/ handleRedo) => UNCHANGED <<zoom, pan>>
       /\ (handleZoomIn \/ handleZoomOut \/ handleZoomReset) =>
               UNCHANGED <<elements, drawingPaths, history, historyIndex>>
       /\ \A e \in ViewEvents :
              ((currentTool = "hand" /\ handleMouseDown(e))
                  \/ (isPanning /\ handleMouseMove(e))
                  \/ (isPanning /\ ~isDrawing /\ handleMouseUp))
              => UNCHANGED <<elements, drawingPaths, history, historyIndex>>]_vars

\* an undo took the document back while the view was zoomed and panned
UndoneInMovedView ==
    /\ zoom = ZoomFactor /\ pan = Pt(40, 0)
    /\ Len(history) = 2 /\ historyIndex = 0
    /\ elements = history[1].elements /\ elements # history[2].elements

\* C23: undo at a cursor <= 0 and redo at the last entry change nothing of
\* elements, strokes, selection, history and cursor; undo at a cursor > 0
\* takes the cursor down by one, redo below the last entry takes it up by
\* one, and neither changes the history entries.
HistoryBoundaryNoOps ==
    [][/\ handleUndo =>
              IF historyIndex <= 0
              THEN UNCHANGED <<elements, drawingPaths, selectedElement, history, historyIndex>>
              ELSE historyIndex' = historyIndex - 1 /\ history' = history
       /\ handleRedo =>
              IF historyIndex >= Len(history) - 1
              THEN UNCHANGED <<elements, drawingPaths, selectedElement, history, historyIndex>>
              ELSE historyIndex' = historyIndex + 1 /\ history' = history]_vars

\* an undo went from the second entry to the first, the selection is kept
UndoneToFirstEntry ==
    /\ Len(history) = 2 /\ historyIndex = 0
    /\ selectedElement # Null

\* the move is a move of a drag: no pan and no stroke is in progress
Dragging ==
    /\ ~isPanning /\ ~(isDrawing /\ currentPath # NullPath)
    /\ isDragging /\ selectedElement # Null

\* C24: with the cursor tool a pointer-down, hit or miss, a move of a drag
\* and a pointer-up leave the history entries and the cursor unchanged; the
\* move of a drag changes the position of the selected element and nothing
\* else of the document.
SelectGestureNoCheckpoint ==
    [][\A e \in Events :
          /\ (currentTool = "cursor" /\ handleMouseDown(e)) =>
                  UNCHANGED <<history, historyIndex, elements, drawingPaths>>
          /\ (Dragging /\ handleMouseMove(e)) =>
                  /\ UNCHANGED <<history, historyIndex, drawingPaths>>
                  /\ Len(elements') = Len(elements)
                  /\ \A i \in 1..Len(elements) :
                        IF elements[i].id = selectedElement
                        THEN elements'[i] = [elements[i] EXCEPT
                                               !.position = elements'[i].position]
                        ELSE elements'[i] = elements[i]
          /\ (currentTool = "cursor" /\ handleMouseUp) =>
                  UNCHANGED <<history, historyIndex, elements>>]_vars

\* the stored arrow was dragged to another position and no checkpoint exists
DraggedAway ==
    /\ currentTool = "cursor" /\ isDragging
    /\ Len(elements) = 1 /\ selectedElement = elements[1].id
    /\ elements[1].position # mountElements[1].position
    /\ history = <<>> /\ historyIndex = -1

\* C25: whenever the status is "saved", the elements, zoom and pan written to
\* storage last are the current ones, also when edits fall into a save that
\* is in flight.
SavedIsTruthful == autoSaveStatus = "saved" => stored = Content

\* C26: when the user stops editing and every save succeeds, the storage
\* eventually holds the latest elements, zoom and pan, and keeps them.
EventuallyDurable == <>[](stored = Content)

\* C27: the selection is none or the id of an element of the document.
SelectionValid ==
    selectedElement = Null \/ \E i \in 1..Len(elements) : elements[i].id = selectedElement

\* the document is the history entry at the cursor
AtEntry(els, paths, h, idx) ==
    els = h[idx + 1].elements /\ paths = h[idx + 1].paths

\* C28: after an undo or a redo that is not a no-op, elements and strokes
\* are those of the history entry at the new cursor; from the state an undo
\* reached, redo and then undo give its elements, strokes and cursor again.
UndoRedoLandOnEntry ==
    [][/\ (handleUndo /\ historyIndex > 0) =>
             LET r == redo(history', historyIndex', elements', drawingPaths')
                 u == undo(history', r.historyIndex, r.elements, r.paths)
             IN  /\ AtEntry(elements', drawingPaths', history', historyIndex')
                 /\ r.historyIndex = historyIndex' + 1
                 /\ u = [elements |-> elements', paths |-> drawingPaths',
                         historyIndex |-> historyIndex']
       /\ (handleRedo /\ historyIndex < Len(history) - 1) =>
             AtEntry(elements', drawingPaths', history', historyIndex')]_vars

\* a redo went back up to the second entry, whose document differs from the
\* first entry's
RedoneToSecondEntry ==
    /\ Len(history) = 2 /\ historyIndex = 1
    /\ law.phase = "redo"
    /\ AtEntry(elements, drawingPaths, history, 1)
    /\ ~AtEntry(elements, drawingPaths, history, 0)

\* C29: the element a pointer-down of a creation tool adds has a zIndex
\* greater than that of every element of the document that was created
\* earlier in the session.
ZIndexIncreases ==
    [][\A e \in Events :
          (currentTool \in CreationTools /\ handleMouseDown(e)) =>
              \A j \in 1..Len(elements) :
                  elements[j].id # StoredElement.id =>
                      elements'[Len(elements')].zIndex > elements[j].zIndex]_vars

\* C30: in a session that opens a whiteboard and changes nothing of its
\* content the status is 'saved' and no onSave call has been made.
OpenedStaysSaved == autoSaveStatus = "saved" /\ inflight = <<>>

OpenedUnchanged ==
    /\ elements = mountElements /\ drawingPaths = <<>>
    /\ zoom = R(1) /\ pan = Pt(0, 0)
    /\ stored = Content

NoSaveCalled == inflight = <<>>

====
